---- MODULE Spec2Model ----
(***************************************************************************)
(* Model of the ingestion pipeline of ragfin: the text normalizer          *)
(* FinVecStore._clean_content, the chunk filter and deduplicator           *)
(* FinVecStore._split_and_dedup_docs and the orchestrator                  *)
(* FinVecStore.generate_vectorstore (src/cdbvecstore.py).                  *)
(*                                                                         *)
(* A Python str is a sequence of Unicode code points (naturals); a bytes   *)
(* object is a sequence of naturals below 256.                             *)
(***************************************************************************)
EXTENDS Integers, Sequences, FiniteSets, TLC

(***************************************************************************)
(* Bounds of the model.                                                    *)
(***************************************************************************)
\* longest input string handed to _clean_content in SpecClean
MaxLen == 5

(***************************************************************************)
(* Code points that the source names.                                      *)
(***************************************************************************)
LF == 10
TAB == 9
SPACE == 32
BACKSLASH == 92
LetterN == 110
NBSP == 160

\* sequence helpers
Drop(s, k) == SubSeq(s, k + 1, Len(s))

Take(s, k) == SubSeq(s, 1, k)

(***************************************************************************)
(* str predicates of Python used by the source: str.isspace (what          *)
(* str.strip removes), the line boundaries of str.splitlines, and          *)
(* str.isalnum (given for the Latin-1 range, which holds every code point  *)
(* the model's inputs can produce without \u escapes).                     *)
(***************************************************************************)
IsSpace(c) ==
    \/ c \in 9..13
    \/ c \in 28..32
    \/ c \in {133, 160, 5760, 8232, 8233, 8239, 8287, 12288}
    \/ c \in 8192..8202

IsLineBreak(c) ==
    \/ c \in 10..13
    \/ c \in 28..30
    \/ c \in {133, 8232, 8233}

IsAlnum(c) ==
    \/ c \in 48..57
    \/ c \in 65..90
    \/ c \in 97..122
    \/ c \in {170, 178, 179, 181, 185, 186, 188, 189, 190}
    \/ (c \in 192..255 /\ c \notin {215, 247})

\* any(c.isalnum() for c in text)
AnyAlnum(s) == \E i \in 1..Len(s) : IsAlnum(s[i])

\* str.strip()
RECURSIVE LStrip(_)
LStrip(s) ==
    IF Len(s) > 0 /\ IsSpace(Head(s)) THEN LStrip(Tail(s)) ELSE s

RECURSIVE RStrip(_)
RStrip(s) ==
    IF Len(s) > 0 /\ IsSpace(s[Len(s)]) THEN RStrip(Take(s, Len(s) - 1)) ELSE s

Strip(s) == RStrip(LStrip(s))

(***************************************************************************)
(* Step 1 of _clean_content: re.sub(r'(\\n)+', '\n', text).  Every         *)
(* maximal run of the two-character sequence backslash, n becomes one      *)
(* newline.                                                                *)
(***************************************************************************)
StartsEscN(s) == Len(s) >= 2 /\ s[1] = BACKSLASH /\ s[2] = LetterN

RECURSIVE DropEscNRun(_)
DropEscNRun(s) == IF StartsEscN(s) THEN DropEscNRun(Drop(s, 2)) ELSE s

RECURSIVE UnescapeNewlines(_)
UnescapeNewlines(s) ==
    IF Len(s) = 0 THEN <<>>
    ELSE IF StartsEscN(s) THEN <<LF>> \o UnescapeNewlines(DropEscNRun(s))
    ELSE <<Head(s)>> \o UnescapeNewlines(Tail(s))

(***************************************************************************)
(* Step 2 of _clean_content: text.encode("utf-8").decode("unicode_escape") *)
(***************************************************************************)
\* UTF-8 bytes of one code point (surrogates, which str.encode rejects,
\* are not among the model's inputs)
Utf8Char(c) ==
    IF c < 128 THEN <<c>>
    ELSE IF c < 2048 THEN <<192 + (c \div 64), 128 + (c % 64)>>
    ELSE IF c < 65536
        THEN <<224 + (c \div 4096), 128 + ((c \div 64) % 64), 128 + (c % 64)>>
    ELSE <<240 + (c \div 262144), 128 + ((c \div 4096) % 64),
           128 + ((c \div 64) % 64), 128 + (c % 64)>>

RECURSIVE Utf8Encode(_)
Utf8Encode(s) ==
    IF Len(s) = 0 THEN <<>> ELSE Utf8Char(Head(s)) \o Utf8Encode(Tail(s))

\* marker that the unicode_escape codec puts where it raises
\* UnicodeDecodeError
DecodeError == -1

IsOctDigit(b) == b \in 48..55

IsHexDigit(b) == b \in 48..57 \/ b \in 65..70 \/ b \in 97..102

HexVal(b) ==
    IF b \in 48..57 THEN b - 48
    ELSE IF b \in 65..70 THEN b - 55
    ELSE b - 87

\* number of leading octal digits of b, at most 3
OctRun(b) ==
    IF Len(b) >= 3 /\ IsOctDigit(b[1]) /\ IsOctDigit(b[2]) /\ IsOctDigit(b[3])
        THEN 3
    ELSE IF Len(b) >= 2 /\ IsOctDigit(b[1]) /\ IsOctDigit(b[2]) THEN 2
    ELSE 1

RECURSIVE OctValue(_, _)
OctValue(b, acc) ==
    IF Len(b) = 0 THEN acc ELSE OctValue(Tail(b), acc * 8 + (Head(b) - 48))

RECURSIVE HexValue(_, _)
HexValue(b, acc) ==
    IF Len(b) = 0 THEN acc ELSE HexValue(Tail(b), acc * 16 + HexVal(Head(b)))

AllHex(b) == \A i \in 1..Len(b) : IsHexDigit(b[i])

\* the single-character escapes of the codec: b, t, n, v, f, r, a, and the
\* backslash and quotes that stand for themselves
SimpleEscape(c) ==
    CASE c = 92 -> 92
      [] c = 39 -> 39
      [] c = 34 -> 34
      [] c = 98 -> 8
      [] c = 102 -> 12
      [] c = 116 -> 9
      [] c = 110 -> 10
      [] c = 114 -> 13
      [] c = 118 -> 11
      [] c = 97 -> 7

IsSimpleEscape(c) == c \in {92, 39, 34, 98, 102, 116, 110, 114, 118, 97}

\* digits of a \x, \u or \U escape
HexWidth(c) == IF c = 120 THEN 2 ELSE IF c = 117 THEN 4 ELSE 8

(***************************************************************************)
(* bytes.decode("unicode_escape"): a byte other than the backslash is the  *)
(* code point of the same number (Latin-1); a backslash starts an escape.  *)
(* A backslash at the end, a truncated \x \u \U escape and a malformed \N  *)
(* escape raise UnicodeDecodeError (\N{name} lookups are not modelled: no  *)
(* input of the model holds the letter N); an unknown escape is kept as    *)
(* backslash plus character; backslash-newline is removed.                 *)
(***************************************************************************)
RECURSIVE UnicodeEscapeDecode(_)
UnicodeEscapeDecode(b) ==
    IF Len(b) = 0 THEN <<>>
    ELSE IF Head(b) # BACKSLASH THEN <<Head(b)>> \o UnicodeEscapeDecode(Tail(b))
    ELSE IF Len(b) = 1 THEN <<DecodeError>>
    ELSE LET c == b[2]
             rest == Drop(b, 2)
         IN  IF c = LF THEN UnicodeEscapeDecode(rest)
             ELSE IF IsSimpleEscape(c)
                 THEN <<SimpleEscape(c)>> \o UnicodeEscapeDecode(rest)
             ELSE IF IsOctDigit(c)
                 THEN LET k == OctRun(Tail(b))
                      IN  <<OctValue(SubSeq(b, 2, 1 + k), 0)>>
                              \o UnicodeEscapeDecode(Drop(b, 1 + k))
             ELSE IF c \in {120, 117, 85}
                 THEN LET w == HexWidth(c)
                      IN  IF Len(rest) >= w /\ AllHex(Take(rest, w))
                                 /\ HexValue(Take(rest, w), 0) <= 1114111
                              THEN <<HexValue(Take(rest, w), 0)>>
                                      \o UnicodeEscapeDecode(Drop(rest, w))
                              ELSE <<DecodeError>>
             ELSE IF c = 78 THEN <<DecodeError>>
             ELSE <<BACKSLASH>> \o UnicodeEscapeDecode(Tail(b))

DecodeRaises(s) == \E i \in 1..Len(s) : s[i] = DecodeError

(***************************************************************************)
(* Steps 3 to 6 of _clean_content.                                         *)
(***************************************************************************)
\* step 3: re.sub(r'\n+', '\n', text)
RECURSIVE CollapseNewlines(_)
CollapseNewlines(s) ==
    IF Len(s) = 0 THEN <<>>
    ELSE IF Len(s) >= 2 /\ s[1] = LF /\ s[2] = LF THEN CollapseNewlines(Tail(s))
    ELSE <<Head(s)>> \o CollapseNewlines(Tail(s))

\* step 4: re.sub(r'[ \t]+', ' ', text)
IsBlank(c) == c = SPACE \/ c = TAB

RECURSIVE CollapseBlanks(_)
CollapseBlanks(s) ==
    IF Len(s) = 0 THEN <<>>
    ELSE IF IsBlank(s[1])
        THEN IF Len(s) >= 2 /\ IsBlank(s[2])
                 THEN CollapseBlanks(Tail(s))
                 ELSE <<SPACE>> \o CollapseBlanks(Tail(s))
    ELSE <<Head(s)>> \o CollapseBlanks(Tail(s))

\* step 5: text.replace('\u00a0', ' ')
ReplaceNbsp(s) == [i \in 1..Len(s) |-> IF s[i] = NBSP THEN SPACE ELSE s[i]]

\* text.splitlines(): the pieces between line boundaries (a \r\n pair
\* gives one empty piece more than Python does; the caller drops empty
\* pieces)
RECURSIVE SplitLines(_, _)
SplitLines(s, cur) ==
    IF Len(s) = 0 THEN (IF Len(cur) = 0 THEN <<>> ELSE <<cur>>)
    ELSE IF IsLineBreak(Head(s)) THEN <<cur>> \o SplitLines(Tail(s), <<>>)
    ELSE SplitLines(Tail(s), Append(cur, Head(s)))

\* ' '.join(lines)
RECURSIVE JoinSpace(_)
JoinSpace(lines) ==
    IF Len(lines) = 0 THEN <<>>
    ELSE IF Len(lines) = 1 THEN lines[1]
    ELSE lines[1] \o <<SPACE>> \o JoinSpace(Tail(lines))

\* [line.strip() for line in lines if line.strip()]
RECURSIVE StripNonEmpty(_)
StripNonEmpty(lines) ==
    IF Len(lines) = 0 THEN <<>>
    ELSE IF Len(Strip(Head(lines))) = 0 THEN StripNonEmpty(Tail(lines))
    ELSE <<Strip(Head(lines))>> \o StripNonEmpty(Tail(lines))

\* lines 69-74 of _clean_content, applied to the decoded text
CleanDecoded(s) ==
    JoinSpace(StripNonEmpty(SplitLines(
        ReplaceNbsp(CollapseBlanks(CollapseNewlines(s))), <<>>)))

(***************************************************************************)
(* FinVecStore._clean_content.  The result is a record: raised is TRUE     *)
(* when the call ends in UnicodeDecodeError (the source has no handler     *)
(* around the decode), otherwise value is the returned string.             *)
(***************************************************************************)
_clean_content(text) ==
    LET decoded == UnicodeEscapeDecode(Utf8Encode(UnescapeNewlines(text)))
    IN  IF DecodeRaises(decoded)
            THEN [raised |-> TRUE, value |-> <<>>]
            ELSE [raised |-> FALSE, value |-> CleanDecoded(decoded)]

(***************************************************************************)
(* Bounds of the ingestion run.                                            *)
(***************************************************************************)
\* most sources configured in all (web_urls, pdf_paths, excel_paths and
\* screener_urls together)
MaxSources == 3

\* most documents one PDF or spreadsheet loader returns
MaxDocs == 1

(***************************************************************************)
(* Texts the loaders and the extractor deliver in the model.               *)
(***************************************************************************)
\* 'revenue: grew 12 percent' (24)
TextRevenue ==
    <<114, 101, 118, 101, 110, 117, 101, 58, 32, 103, 114, 101, 119, 32, 49,
      50, 32, 112, 101, 114, 99, 101, 110, 116>>

\* '  revenue: grew 12 percent \n' (28)
TextRevenuePadded ==
    <<32, 32, 114, 101, 118, 101, 110, 117, 101, 58, 32, 103, 114, 101, 119,
      32, 49, 50, 32, 112, 101, 114, 99, 101, 110, 116, 32, 10>>

\* 'too short' (9)
TextShort ==
    <<116, 111, 111, 32, 115, 104, 111, 114, 116>>

\* '!!! --- !!! --- !!! ---' (23)
TextPunct ==
    <<33, 33, 33, 32, 45, 45, 45, 32, 33, 33, 33, 32, 45, 45, 45, 32, 33, 33,
      33, 32, 45, 45, 45>>

\* 'loss widened in FY24 \' (22), ends in a lone backslash
TextBackslash ==
    <<108, 111, 115, 115, 32, 119, 105, 100, 101, 110, 101, 100, 32, 105, 110,
      32, 70, 89, 50, 52, 32, 92>>

RawTexts ==
    {TextRevenue, TextRevenuePadded, TextShort, TextPunct, TextBackslash}

\* 'revenue'
SecRevenue == <<114, 101, 118, 101, 110, 117, 101>>

\* 'grew 12 percent'
ValRevenue ==
    <<103, 114, 101, 119, 32, 49, 50, 32, 112, 101, 114, 99, 101, 110, 116>>

\* 'ratios'
SecRatios == <<114, 97, 116, 105, 111, 115>>

\* 'roe'
KeyRoe == <<114, 111, 101>>

\* '12 percent'
ValRoe == <<49, 50, 32, 112, 101, 114, 99, 101, 110, 116>>

\* 'debt'
KeyDebt == <<100, 101, 98, 116>>

\* 'none'
ValDebt == <<110, 111, 110, 101>>

\* 'pros'
SecPros == <<112, 114, 111, 115>>

\* 'debt is falling fast'
ValPros ==
    <<100, 101, 98, 116, 32, 105, 115, 32, 102, 97, 108, 108, 105, 110, 103,
      32, 102, 97, 115, 116>>

\* 'note'
SecNote == <<110, 111, 116, 101>>

\* 'see annexure 4 \', ends in a lone backslash
ValNote ==
    <<115, 101, 101, 32, 97, 110, 110, 101, 120, 117, 114, 101, 32, 52, 32,
      92>>

\* 'peers'
SecPeers == <<112, 101, 101, 114, 115>>

(***************************************************************************)
(* Records that FinDataExtractor.extract_all returns in the model: a dict  *)
(* is the sequence of its items in insertion order; a section's content is *)
(* a str, a list (of str or dict items), a dict, or something else.        *)
(***************************************************************************)
JsonRevenue ==
    <<[section |-> SecRevenue, kind |-> "str", content |-> ValRevenue]>>

JsonRatiosPros ==
    <<[section |-> SecRatios, kind |-> "dict",
       content |-> <<<<KeyRoe, ValRoe>>, <<KeyDebt, ValDebt>>>>],
      [section |-> SecPeers, kind |-> "other", content |-> <<>>],
      [section |-> SecPros, kind |-> "list",
       content |-> <<[kind |-> "str", content |-> ValPros],
                     [kind |-> "dict", content |-> <<<<KeyRoe, ValRoe>>>>]>>]>>

JsonNote ==
    <<[section |-> SecRevenue, kind |-> "str", content |-> ValRevenue],
      [section |-> SecNote, kind |-> "str", content |-> ValNote]>>

JsonEmpty == <<>>

JsonRecords == {JsonRevenue, JsonRatiosPros, JsonNote, JsonEmpty}

(***************************************************************************)
(* Documents and their metadata.  A metadata dict is a function from keys  *)
(* to values; a value is a record of its Python type and its printed form. *)
(***************************************************************************)
Document(content, meta) == [page_content |-> content, metadata |-> meta]

MetaValue(type, value) == [type |-> type, value |-> value]

SetItem(meta, key, val) ==
    [k \in (DOMAIN meta) \cup {key} |-> IF k = key THEN val ELSE meta[k]]

EmptyMeta == [k \in {} |-> MetaValue("str", "")]

\* metadata the loaders attach: WebBaseLoader a source string, PyMuPDFLoader
\* a page number, UnstructuredExcelLoader (mode="elements") a languages list
LoaderMeta(kind, i) ==
    CASE kind = "web" -> SetItem(EmptyMeta, "source", MetaValue("str", "url"))
      [] kind = "pdf" ->
            SetItem(EmptyMeta, "page", MetaValue("int", ToString(i)))
      [] kind = "excel" ->
            SetItem(EmptyMeta, "languages", MetaValue("list", "['eng']"))

SourceTypes == {"web", "pdf", "excel", "screener"}

\* len(text) < 20 in _split_and_dedup_docs
MinChunkLen == 20

(***************************************************************************)
(* FinVecStore._get_content_hash and _already_exists.  MD5 is modelled as  *)
(* a digest without collisions: the digest of a string is a tag around     *)
(* its UTF-8 bytes.                                                        *)
(***************************************************************************)
_get_content_hash(content) == [md5 |-> Utf8Encode(content)]

\* mutant: the membership test never finds the hash
AlreadyExistsNever(doc_hash, hashes_seen) == FALSE

_already_exists(doc_hash, hashes_seen) == doc_hash \in hashes_seen

(***************************************************************************)
(* FinVecStore._convert_screener_json_to_documents: one document per       *)
(* section whose content is a str, list or dict, its text cleaned.  The    *)
(* result records whether a _clean_content call raised.                    *)
(***************************************************************************)
RECURSIVE Join(_, _)
Join(parts, sep) ==
    IF Len(parts) = 0 THEN <<>>
    ELSE IF Len(parts) = 1 THEN parts[1]
    ELSE parts[1] \o sep \o Join(Tail(parts), sep)

\* f"{k}: {v}"
KeyValue(pair) == pair[1] \o <<58, SPACE>> \o pair[2]

\* "\n".join(f"{k}: {v}" for k, v in item.items())
DictLines(items) == Join([i \in 1..Len(items) |-> KeyValue(items[i])], <<LF>>)

ListItem(item) ==
    IF item.kind = "dict" THEN DictLines(item.content) ELSE item.content

SectionText(entry) ==
    CASE entry.kind = "str" -> entry.section \o <<58, SPACE>> \o entry.content
      [] entry.kind = "list" ->
            entry.section \o <<58, LF>>
                \o Join([i \in 1..Len(entry.content) |->
                            ListItem(entry.content[i])], <<LF, LF>>)
      [] entry.kind = "dict" ->
            entry.section \o <<58, LF>> \o DictLines(entry.content)

RECURSIVE _convert_screener_json_to_documents(_)
_convert_screener_json_to_documents(json_data) ==
    IF Len(json_data) = 0 THEN [raised |-> FALSE, docs |-> <<>>]
    ELSE LET entry == Head(json_data)
             rest == _convert_screener_json_to_documents(Tail(json_data))
         IN  IF entry.kind \notin {"str", "list", "dict"} THEN rest
             ELSE LET c == _clean_content(SectionText(entry))
                      meta == SetItem(EmptyMeta, "section",
                                      MetaValue("str", entry.section))
                  IN  IF c.raised \/ rest.raised
                          THEN [raised |-> TRUE, docs |-> <<>>]
                          ELSE [raised |-> FALSE,
                                docs |-> <<Document(c.value, meta)>>
                                             \o rest.docs]

(***************************************************************************)
(* doc.page_content = self._clean_content(doc.page_content) for each doc   *)
(* of a list (lines 146-147 and 181-182).                                  *)
(***************************************************************************)
CleanDocs(docs) ==
    IF \E i \in 1..Len(docs) : _clean_content(docs[i].page_content).raised
        THEN [raised |-> TRUE, docs |-> <<>>]
        ELSE [raised |-> FALSE,
              docs |-> [i \in 1..Len(docs) |->
                  Document(_clean_content(docs[i].page_content).value,
                           docs[i].metadata)]]

(***************************************************************************)
(* splitter.split_documents(docs).  Every text of the model is shorter     *)
(* than the chunk sizes the source configures (500, 800, 1000), so a       *)
(* document is never cut: it comes back as one chunk with a copy of its    *)
(* metadata.  Whether the splitter trims its chunks (strip_whitespace) is  *)
(* the library's choice, so both outcomes are possible.  The value is the  *)
(* set of chunk lists the call can return.                                 *)
(***************************************************************************)
split_documents(docs) ==
    {docs,
     [i \in 1..Len(docs) |->
         Document(Strip(docs[i].page_content), docs[i].metadata)]}

(***************************************************************************)
(* FinVecStore._split_and_dedup_docs, the loop over the chunks the         *)
(* splitter returned (lines 105-113 and 117-125 are the same loop): trim,  *)
(* drop short chunks and chunks without an alphanumeric character, hash,   *)
(* and append the chunk, tagged, when its hash is new.                     *)
(***************************************************************************)
\* mutant: the chunk text is hashed and measured untrimmed
ChunkTextUntrimmed(chunk) == chunk.page_content

\* text = chunk.page_content.strip() (lines 106, 118)
ChunkText(chunk) == Strip(chunk.page_content)

\* mutant: a chunk is dropped only when it is short and has no
\* alphanumeric character
DiscardBoth(stripped) == Len(stripped) < MinChunkLen /\ ~AnyAlnum(stripped)

\* len(text) < 20 or not any(c.isalnum() for c in text) (lines 107, 119)
Discard(stripped) == Len(stripped) < MinChunkLen \/ ~AnyAlnum(stripped)

RECURSIVE _split_and_dedup_docs(_, _, _, _)
_split_and_dedup_docs(chunks, hashes, corpus, source_type) ==
    IF Len(chunks) = 0 THEN [seen_hashes |-> hashes, all_chunks |-> corpus]
    ELSE LET chunk == Head(chunks)
             stripped == ChunkText(chunk)
             doc_hash == _get_content_hash(stripped)
         IN  IF Discard(stripped)
                 THEN _split_and_dedup_docs(Tail(chunks), hashes, corpus,
                                            source_type)
             ELSE IF _already_exists(doc_hash, hashes)
                 THEN _split_and_dedup_docs(Tail(chunks), hashes, corpus,
                                            source_type)
             ELSE _split_and_dedup_docs(Tail(chunks), hashes \cup {doc_hash},
                     Append(corpus,
                         [chunk EXCEPT !.metadata =
                             SetItem(@, "source_type",
                                     MetaValue("str", source_type))]),
                     source_type)

(***************************************************************************)
(* filter_complex_metadata: every document keeps only the metadata values  *)
(* of type str, bool, int or float; no document is dropped.                *)
(***************************************************************************)
\* mutant: str values are not among the allowed types
AllowedTypesNoStr == {"bool", "int", "float"}

AllowedTypes == {"str", "bool", "int", "float"}

FilterMeta(meta) ==
    [k \in {x \in DOMAIN meta : meta[x].type \in AllowedTypes} |-> meta[k]]

filter_complex_metadata(documents) ==
    [i \in 1..Len(documents) |->
        Document(documents[i].page_content, FilterMeta(documents[i].metadata))]

(***************************************************************************)
(* State.                                                                  *)
(***************************************************************************)
VARIABLES
    config,       \* number of web_urls, pdf_paths, excel_paths, screener_urls
    processed,    \* per kind, the loop iterations of generate_vectorstore done
    all_chunks,   \* the list all_chunks of generate_vectorstore
    seen_hashes,  \* the set seen_hashes of generate_vectorstore
    result,       \* "running", or how generate_vectorstore ended:
                  \* "None", "vectorstore" or "raised"
    exception,    \* what was raised out of generate_vectorstore: "none",
                  \* "load" (a loader), "decode" (the UnicodeDecodeError of
                  \* _clean_content) or "index" (Chroma.from_documents)
    build_calls,  \* the documents argument of every Chroma.from_documents call
    warnings,     \* the logger.warning calls of generate_vectorstore
    first_source, \* history: every trimmed chunk text the splitters have
                  \* returned, with the source type that returned it first
    resubmitted,  \* history: the trimmed chunk texts that a splitter returned
                  \* again, for a source type other than the first
    unnormalized, \* history: the source types of which a splitter was handed
                  \* a document text that _clean_content had not returned
    text,         \* SpecClean: the string handed to _clean_content
    cleaned,      \* SpecClean: result of _clean_content(text)
    recleaned,    \* SpecClean: result of _clean_content on that result
    stage,        \* SpecClean: "input", "once", "twice"; "idle" in Spec
    args,         \* SpecQuery: the args dict handed to RAG.async_invoke
    collection,   \* SpecQuery: the chunk contents of the Chroma collection,
                  \* in the rank order of the similarity search
    client_opened,\* SpecQuery: PersistentClient(...) has been constructed
    searches,     \* SpecQuery: the (query, k) of every similarity_search call
    response,     \* SpecQuery: what async_invoke returned, or "pending"
    page,         \* SpecExtract: the page behind the URL of the extractor
    fetch,        \* SpecExtract: use_browser, PLAYWRIGHT_AVAILABLE, and what
                  \* the rendering engine and the HTTP request will do
    html,         \* SpecExtract: self.html: "none", "rendered" or "static"
    data,         \* SpecExtract: self.data, the items in insertion order
    error,        \* SpecExtract: the exception that left extract_all, or "none"
    log,          \* SpecExtract: what fetch_html printed
    pc            \* SpecExtract: the next call of extract_all; "idle" elsewhere

vars ==
    <<config, processed, all_chunks, seen_hashes, result, exception,
      build_calls, warnings, first_source, resubmitted, unnormalized, text,
      cleaned, recleaned, stage, args, collection, client_opened, searches, response,
      page, fetch, html, data, error, log, pc>>

runVars ==
    <<config, processed, all_chunks, seen_hashes, result, exception,
      build_calls, warnings, first_source, resubmitted, unnormalized>>

cleanVars == <<text, cleaned, recleaned, stage>>

queryVars == <<args, collection, client_opened, searches, response>>

extractVars == <<page, fetch, html, data, error, log, pc>>

Kinds == <<"web", "pdf", "excel", "screener">>

NoResult == [raised |-> FALSE, value |-> <<>>]

\* no call of RAG.async_invoke is modelled
IdleQuery ==
    /\ args = <<>>
    /\ collection = <<>>
    /\ client_opened = FALSE
    /\ searches = <<>>
    /\ response = [kind |-> "idle", value |-> <<>>]

\* no FinDataExtractor is modelled
IdleExtract ==
    /\ page = <<>>
    /\ fetch = <<>>
    /\ html = "none"
    /\ data = <<>>
    /\ error = "none"
    /\ log = <<>>
    /\ pc = "idle"

\* the locals of generate_vectorstore at its first loop (lines 128-129)
InitRun ==
    /\ processed = [k \in SourceTypes |-> 0]
    /\ all_chunks = <<>>
    /\ seen_hashes = {}
    /\ result = "running"
    /\ exception = "none"
    /\ build_calls = <<>>
    /\ warnings = <<>>
    /\ first_source = {}
    /\ resubmitted = {}
    /\ unnormalized = {}

\* the source lists set in __init__ (lines 34-51), by their lengths; the
\* source sets one Screener URL and leaves the other lists empty
Configs ==
    {c \in [SourceTypes -> 0..MaxSources] :
        c["web"] + c["pdf"] + c["excel"] + c["screener"] <= MaxSources}

Init ==
    /\ config \in Configs
    /\ InitRun
    /\ text = <<>>
    /\ cleaned = NoResult
    /\ recleaned = NoResult
    /\ stage = "idle"
    /\ IdleQuery
    /\ IdleExtract

\* the loop of generate_vectorstore that is running: the first kind, in the
\* order web, PDF, Excel, Screener, with a source left
Current(kind) ==
    /\ result = "running"
    /\ processed[kind] < config[kind]
    /\ \A i \in 1..4 :
          (\E j \in (i + 1)..4 : Kinds[j] = kind) =>
              processed[Kinds[i]] = config[Kinds[i]]

\* mutant: the end of the run does not wait for the Screener loop
AllProcessedButScreener ==
    \A k \in SourceTypes \ {"screener"} : processed[k] = config[k]

AllProcessed == \A k \in SourceTypes : processed[k] = config[k]

Seqs(S, n) == UNION {[1..k -> S] : k \in 0..n}

\* the history after the splitter returned chunks for source_type
RECURSIVE Submit(_, _, _, _)
Submit(chunks, source_type, first, again) ==
    IF Len(chunks) = 0 THEN [first_source |-> first, resubmitted |-> again]
    ELSE LET t == Strip(Head(chunks).page_content)
         IN  IF \E f \in first : f.text = t
                 THEN Submit(Tail(chunks), source_type, first,
                          IF [text |-> t, source_type |-> source_type] \in first
                              THEN again ELSE again \cup {t})
                 ELSE Submit(Tail(chunks), source_type,
                          first \cup {[text |-> t, source_type |-> source_type]},
                          again)

\* an exception leaves generate_vectorstore: the run ends without a result
\* and the locals all_chunks and seen_hashes are lost with the frame
Propagate(cause) ==
    /\ result' = "raised"
    /\ exception' = cause
    /\ UNCHANGED <<config, processed, all_chunks, seen_hashes, build_calls,
                   warnings, first_source, resubmitted, unnormalized>>

\* an outcome of one loop iteration up to the splitter: an exception, or
\* the chunks the splitter returned for the documents docs, with whether
\* every text of docs is one that a _clean_content call of the iteration
\* returned (returned being the set of the strings those calls returned)
Raised(cause) ==
    [raised |-> TRUE, cause |-> cause, chunks |-> <<>>, normalized |-> TRUE]

Chunks(chunks, docs, returned) ==
    [raised |-> FALSE, cause |-> "none", chunks |-> chunks,
     normalized |-> \A i \in 1..Len(docs) : docs[i].page_content \in returned]

\* the strings that the _clean_content calls of CleanDocs returned
CleanReturned(c) == {c.docs[i].page_content : i \in 1..Len(c.docs)}

\* lines 133-140 up to the splitter: the loader raises, or yields a page,
\* which is cleaned and split
WebOutcomes ==
    {Raised("load")} \cup UNION {
        LET c == CleanDocs(<<Document(t, LoaderMeta("web", 0))>>)
        IN  IF c.raised THEN {Raised("decode")}
            ELSE {Chunks(ch, c.docs, CleanReturned(c)) :
                     ch \in split_documents(c.docs)}
        : t \in RawTexts}

\* lines 144-153 up to the splitter: PyMuPDFLoader.load raises, or returns
\* the pages, which are cleaned and split
PdfOutcomes ==
    {Raised("load")} \cup UNION {
        LET pdf_docs == [i \in 1..Len(ts) |->
                            Document(ts[i], LoaderMeta("pdf", i - 1))]
            c == CleanDocs(pdf_docs)
        IN  IF c.raised THEN {Raised("decode")}
            ELSE {Chunks(ch, c.docs, CleanReturned(c)) :
                     ch \in split_documents(c.docs)}
        : ts \in Seqs(RawTexts, MaxDocs)}

\* lines 157-164 up to the splitter: UnstructuredExcelLoader.load raises, or
\* returns the elements, which are split as loaded (no _clean_content)
ExcelOutcomes ==
    {Raised("load")} \cup UNION {
        LET excel_docs == [i \in 1..Len(ts) |->
                              Document(ts[i], LoaderMeta("excel", i - 1))]
        IN  {Chunks(ch, excel_docs, {}) : ch \in split_documents(excel_docs)}
        : ts \in Seqs(RawTexts, MaxDocs)}

\* lines 170-187: extract_all raises, or returns a record, which becomes
\* cleaned documents that are cleaned again and split
ScreenerOutcomes ==
    {Raised("load")} \cup UNION {
        LET json_docs == _convert_screener_json_to_documents(json_data)
            c == CleanDocs(json_docs.docs)
        IN  IF json_docs.raised \/ c.raised THEN {Raised("decode")}
            ELSE {Chunks(ch, c.docs, CleanReturned(c)) :
                     ch \in split_documents(c.docs)}
        : json_data \in JsonRecords}

\* the loop of _split_and_dedup_docs on the splitter's chunks, and the end
\* of the loop iteration of generate_vectorstore
SplitAndDedup(o, kind) ==
    LET chunks == o.chunks
        r == _split_and_dedup_docs(chunks, seen_hashes, all_chunks, kind)
        h == Submit(chunks, kind, first_source, resubmitted)
    IN  /\ all_chunks' = r.all_chunks
        /\ seen_hashes' = r.seen_hashes
        /\ first_source' = h.first_source
        /\ resubmitted' = h.resubmitted
        /\ unnormalized' = IF o.normalized THEN unnormalized
                           ELSE unnormalized \cup {kind}
        /\ processed' = [processed EXCEPT ![kind] = @ + 1]
        /\ UNCHANGED <<config, result, exception, build_calls, warnings>>

(***************************************************************************)
(* One iteration of the web loop (lines 133-140).  Nothing in the loop     *)
(* catches an exception.                                                   *)
(***************************************************************************)
WebPage ==
    /\ Current("web")
    /\ \E o \in WebOutcomes :
          IF o.raised THEN Propagate(o.cause) ELSE SplitAndDedup(o, "web")
    /\ UNCHANGED <<cleanVars, queryVars, extractVars>>

(***************************************************************************)
(* One iteration of the PDF loop (lines 144-153).  Nothing in the loop     *)
(* catches an exception.                                                   *)
(***************************************************************************)
PdfFile ==
    /\ Current("pdf")
    /\ \E o \in PdfOutcomes :
          IF o.raised THEN Propagate(o.cause) ELSE SplitAndDedup(o, "pdf")
    /\ UNCHANGED <<cleanVars, queryVars, extractVars>>

(***************************************************************************)
(* One iteration of the Excel loop (lines 157-164).  Nothing in the loop   *)
(* catches an exception.                                                   *)
(***************************************************************************)
ExcelFile ==
    /\ Current("excel")
    /\ \E o \in ExcelOutcomes :
          IF o.raised THEN Propagate(o.cause) ELSE SplitAndDedup(o, "excel")
    /\ UNCHANGED <<cleanVars, queryVars, extractVars>>

\* mutant: the Screener loop has no handler, the exception leaves the run
ScreenerFailedPropagates == Propagate("load")

\* except Exception (lines 190-191): the warning is logged and the loop
\* goes on with the next URL
ScreenerFailed ==
    /\ warnings' = Append(warnings,
           [event |-> "screener_failed", url |-> processed["screener"] + 1])
    /\ processed' = [processed EXCEPT !["screener"] = @ + 1]
    /\ UNCHANGED <<config, all_chunks, seen_hashes, result, exception,
                   build_calls, first_source, resubmitted, unnormalized>>

(***************************************************************************)
(* One iteration of the Screener loop (lines 168-191).  Every exception    *)
(* raised in the iteration is caught.                                      *)
(***************************************************************************)
ScreenerUrl ==
    /\ Current("screener")
    /\ \E o \in ScreenerOutcomes :
          IF o.raised THEN ScreenerFailed
          ELSE SplitAndDedup(o, "screener")
    /\ UNCHANGED <<cleanVars, queryVars, extractVars>>

(***************************************************************************)
(* The end of generate_vectorstore (lines 193-215): the metadata of the    *)
(* chunks is filtered in place; an empty list returns None; otherwise      *)
(* Chroma.from_documents is called, which returns the store or raises.     *)
(***************************************************************************)
Finish ==
    /\ result = "running"
    /\ AllProcessed
    /\ LET filtered_chunks == filter_complex_metadata(all_chunks)
       IN  /\ all_chunks' = filtered_chunks
           /\ IF Len(filtered_chunks) = 0
                  THEN /\ warnings' = Append(warnings,
                               [event |-> "no_valid_chunks", url |-> 0])
                       /\ result' = "None"
                       /\ UNCHANGED <<build_calls, exception>>
                  ELSE /\ build_calls' = Append(build_calls, filtered_chunks)
                       /\ \/ result' = "vectorstore" /\ UNCHANGED exception
                          \/ result' = "raised" /\ exception' = "index"
                       /\ UNCHANGED warnings
    /\ UNCHANGED <<config, processed, seen_hashes, first_source, resubmitted,
                   unnormalized>>
    /\ UNCHANGED <<cleanVars, queryVars, extractVars>>

Next ==
    \/ WebPage
    \/ PdfFile
    \/ ExcelFile
    \/ ScreenerUrl
    \/ Finish

Spec == Init /\ [][Next]_vars

(***************************************************************************)
(* The normalizer on its own: _clean_content applied to a string, and      *)
(* applied again to what it returned.                                      *)
(***************************************************************************)
\* code points of the input strings: a, b, newline, space, backslash, n and
\* the non-breaking space
Alphabet == {97, 98, LF, SPACE, BACKSLASH, LetterN, NBSP}

InitClean ==
    /\ config = [k \in SourceTypes |-> 0]
    /\ InitRun
    /\ text \in Seqs(Alphabet, MaxLen)
    /\ cleaned = NoResult
    /\ recleaned = NoResult
    /\ stage = "input"
    /\ IdleQuery
    /\ IdleExtract

CleanOnce ==
    /\ stage = "input"
    /\ cleaned' = _clean_content(text)
    /\ stage' = "once"
    /\ UNCHANGED <<text, recleaned>>
    /\ UNCHANGED <<runVars, queryVars, extractVars>>

CleanAgain ==
    /\ stage = "once"
    /\ ~cleaned.raised
    /\ recleaned' = _clean_content(cleaned.value)
    /\ stage' = "twice"
    /\ UNCHANGED <<text, cleaned>>
    /\ UNCHANGED <<runVars, queryVars, extractVars>>

NextClean ==
    \/ CleanOnce
    \/ CleanAgain

SpecClean == InitClean /\ [][NextClean]_vars

(***************************************************************************)
(* The query entry point: RAG.async_invoke (src/rag.py) on a collection    *)
(* that an earlier run built.  The PersistentClient is taken to open; the  *)
(* similarity search is the store's: it returns its best hits in rank      *)
(* order, or raises.                                                       *)
(***************************************************************************)
\* most chunks in the collection
MaxHits == 3

\* top_k=10 (src/rag.py line 99)
TopK == 10

\* 'Error: No query provided.'
ErrorNoQuery ==
    <<69, 114, 114, 111, 114, 58, 32, 78, 111, 32, 113, 117, 101, 114, 121,
      32, 112, 114, 111, 118, 105, 100, 101, 100, 46>>

\* a Python value: its type and, for a str, its characters
Str(s) == [type |-> "str", value |-> s]

None == [type |-> "NoneType", value |-> <<>>]

\* 'roe', two blanks, '' and None
QueryValues == {Str(KeyRoe), Str(<<SPACE, SPACE>>), Str(<<>>), None}

\* the args dicts: without the key "query", or with one of the values
ArgsDicts == {<<>>} \cup {[k \in {"query"} |-> v] : v \in QueryValues}

\* the contents of the chunks of the collection
HitTexts == {KeyRoe, ValRoe, ValPros}

\* args.get("query", "") (line 77)
GetQuery(a) == IF "query" \in DOMAIN a THEN a["query"] ELSE Str(<<>>)

\* mutant: no query is ever taken for missing
NotQueryNever(query) == FALSE

\* not query (line 83): None and the empty str are false
NotQuery(query) == query.type = "NoneType" \/ Len(query.value) = 0

\* vectorstore.similarity_search(query, k=top_k): the first k of the ranked
\* chunks
similarity_search(ranked, k) ==
    Take(ranked, IF Len(ranked) < k THEN Len(ranked) ELSE k)

\* FinVecStore.query_existing_vectorstore (src/cdbvecstore.py lines 246-251):
\* "\n\n".join(doc.page_content for doc in results), a str
query_existing_vectorstore(ranked, top_k) ==
    Join(similarity_search(ranked, top_k), <<LF, LF>>)

\* iterating a str yields its characters, each a str of length one
Chars(s) == [i \in 1..Len(s) |-> <<s[i]>>]

\* "\n\n".join(results) (src/rag.py line 104), results being the str that
\* query_existing_vectorstore returned
JoinResults(results) == Join(Chars(results), <<LF, LF>>)

\* RAG.query_vectorstore (src/rag.py lines 98-104)
query_vectorstore(ranked) ==
    JoinResults(query_existing_vectorstore(ranked, TopK))

IdleRun ==
    /\ config = [k \in SourceTypes |-> 0]
    /\ InitRun

IdleClean ==
    /\ text = <<>>
    /\ cleaned = NoResult
    /\ recleaned = NoResult
    /\ stage = "idle"

InitQuery ==
    /\ args \in ArgsDicts
    /\ collection \in Seqs(HitTexts, MaxHits)
    /\ client_opened = FALSE
    /\ searches = <<>>
    /\ response = [kind |-> "pending", value |-> <<>>]
    /\ IdleRun
    /\ IdleClean
    /\ IdleExtract

(***************************************************************************)
(* RAG.async_invoke with a missing or empty query (lines 77-84): the       *)
(* client is opened, then the error string is returned.                    *)
(***************************************************************************)
AsyncInvokeNoQuery ==
    /\ response.kind = "pending"
    /\ NotQuery(GetQuery(args))
    /\ client_opened' = TRUE
    /\ response' = [kind |-> "str", value |-> ErrorNoQuery]
    /\ UNCHANGED <<args, collection, searches>>
    /\ UNCHANGED <<runVars, cleanVars, extractVars>>

(***************************************************************************)
(* RAG.async_invoke with a query (lines 77-87): the client is opened and   *)
(* query_vectorstore is awaited; an exception of the search leaves         *)
(* async_invoke.                                                           *)
(***************************************************************************)
AsyncInvokeQuery ==
    /\ response.kind = "pending"
    /\ ~NotQuery(GetQuery(args))
    /\ client_opened' = TRUE
    /\ searches' = Append(searches,
                       [query |-> GetQuery(args).value, k |-> TopK])
    /\ \/ response' = [kind |-> "str", value |-> query_vectorstore(collection)]
       \/ response' = [kind |-> "raised", value |-> <<>>]
    /\ UNCHANGED <<args, collection>>
    /\ UNCHANGED <<runVars, cleanVars, extractVars>>

NextQuery ==
    \/ AsyncInvokeNoQuery
    \/ AsyncInvokeQuery

SpecQuery == InitQuery /\ [][NextQuery]_vars

(***************************************************************************)
(* FinDataExtractor (src/fintastic.py), the extractor that                 *)
(* generate_vectorstore imports.  self.soup is modelled by the nodes the   *)
(* selectors of the code look for: body is the sequence, in document       *)
(* order, of the h1 and h2 headings, the tables and the ul lists, all      *)
(* siblings; company_info, pros, cons, annual_reports and concalls are     *)
(* the nodes under the selectors of those names.  A node that may be       *)
(* missing, and an attribute that may be missing, is a sequence of length  *)
(* 0 or 1.  self.data is a function from keys to Python values.            *)
(***************************************************************************)
\* most nodes in the body of a page
MaxNodes == 3

\* the str literals of src/fintastic.py: the keys of self.data and of the
\* dicts in it, the heading texts searched for, and the two defaults
Lit ==
    [
     \* 'company_name'
     company_name |-> <<99, 111, 109, 112, 97, 110, 121, 95, 110, 97, 109,
         101>>,
     \* 'company_info'
     company_info |-> <<99, 111, 109, 112, 97, 110, 121, 95, 105, 110, 102,
         111>>,
     \* 'pros'
     pros |-> <<112, 114, 111, 115>>,
     \* 'cons'
     cons |-> <<99, 111, 110, 115>>,
     \* 'Shareholding Pattern'
     shareholding |-> <<83, 104, 97, 114, 101, 104, 111, 108, 100, 105, 110,
         103, 32, 80, 97, 116, 116, 101, 114, 110>>,
     \* 'documents'
     documents |-> <<100, 111, 99, 117, 109, 101, 110, 116, 115>>,
     \* 'about'
     about |-> <<97, 98, 111, 117, 116>>,
     \* 'key_points'
     key_points |-> <<107, 101, 121, 95, 112, 111, 105, 110, 116, 115>>,
     \* 'external_links'
     external_links |-> <<101, 120, 116, 101, 114, 110, 97, 108, 95, 108,
         105, 110, 107, 115>>,
     \* 'top_ratios'
     top_ratios |-> <<116, 111, 112, 95, 114, 97, 116, 105, 111, 115>>,
     \* 'announcements'
     announcements |-> <<97, 110, 110, 111, 117, 110, 99, 101, 109, 101, 110,
         116, 115>>,
     \* 'annual_reports'
     annual_reports |-> <<97, 110, 110, 117, 97, 108, 95, 114, 101, 112, 111,
         114, 116, 115>>,
     \* 'concalls'
     concalls |-> <<99, 111, 110, 99, 97, 108, 108, 115>>,
     \* 'title'
     title |-> <<116, 105, 116, 108, 101>>,
     \* 'url'
     url |-> <<117, 114, 108>>,
     \* 'date'
     date |-> <<100, 97, 116, 101>>,
     \* 'links'
     links |-> <<108, 105, 110, 107, 115>>,
     \* 'type'
     type |-> <<116, 121, 112, 101>>,
     \* 'Documents'
     doc_heading |-> <<68, 111, 99, 117, 109, 101, 110, 116, 115>>,
     \* 'Unknown Date'
     unknown_date |-> <<85, 110, 107, 110, 111, 119, 110, 32, 68, 97, 116,
         101>>,
     \* 'https://www.screener.in'
     origin |-> <<104, 116, 116, 112, 115, 58, 47, 47, 119, 119, 119, 46,
         115, 99, 114, 101, 101, 110, 101, 114, 46, 105, 110>>
    ]

\* the texts of the pages of the model
Txt ==
    [
     \* ' Affle '
     affle |-> <<32, 65, 102, 102, 108, 101, 32>>,
     \* 'Quarterly Results '
     quarterly |-> <<81, 117, 97, 114, 116, 101, 114, 108, 121, 32, 82, 101,
         115, 117, 108, 116, 115, 32>>,
     \* 'Shareholding pattern'
     holding |-> <<83, 104, 97, 114, 101, 104, 111, 108, 100, 105, 110, 103,
         32, 112, 97, 116, 116, 101, 114, 110>>,
     \* 'Year'
     year |-> <<89, 101, 97, 114>>,
     \* ' Sales'
     sales |-> <<32, 83, 97, 108, 101, 115>>,
     \* '2023'
     y2023 |-> <<50, 48, 50, 51>>,
     \* '100 '
     v100 |-> <<49, 48, 48, 32>>,
     \* '2024'
     y2024 |-> <<50, 48, 50, 52>>,
     \* 'Promoters'
     promoters |-> <<80, 114, 111, 109, 111, 116, 101, 114, 115>>,
     \* '55%'
     pct |-> <<53, 53, 37>>,
     \* 'Financial Year 2024'
     report |-> <<70, 105, 110, 97, 110, 99, 105, 97, 108, 32, 89, 101, 97,
         114, 32, 50, 48, 50, 52>>,
     \* 'from bse'
     badge |-> <<102, 114, 111, 109, 32, 98, 115, 101>>,
     \* '/ar.pdf'
     href |-> <<47, 97, 114, 46, 112, 100, 102>>,
     \* 'Ad tech company'
     about |-> <<65, 100, 32, 116, 101, 99, 104, 32, 99, 111, 109, 112, 97,
         110, 121>>,
     \* 'Website'
     website |-> <<87, 101, 98, 115, 105, 116, 101>>,
     \* 'affle.com'
     site |-> <<97, 102, 102, 108, 101, 46, 99, 111, 109>>,
     \* 'ROE'
     roe |-> <<82, 79, 69>>,
     \* 'Profit growth'
     growth |-> <<80, 114, 111, 102, 105, 116, 32, 103, 114, 111, 119, 116,
         104>>,
     \* 'High debt'
     debt |-> <<72, 105, 103, 104, 32, 100, 101, 98, 116>>,
     \* 'May 2024'
     may |-> <<77, 97, 121, 32, 50, 48, 50, 52>>,
     \* 'Transcript'
     transcript |-> <<84, 114, 97, 110, 115, 99, 114, 105, 112, 116>>,
     \* 'Notes'
     notes |-> <<78, 111, 116, 101, 115>>,
     \* '/concall/123'
     data_url |-> <<47, 99, 111, 110, 99, 97, 108, 108, 47, 49, 50, 51>>,
     \* ' '
     blank |-> <<32>>
    ]

List(items) == [type |-> "list", value |-> items]

Dict(d) == [type |-> "dict", value |-> d]

\* what Tag.get returns for an attribute: its value, or None
Optional(attr) == IF Len(attr) = 0 THEN None ELSE Str(attr[1])

\* `if label and url`: the attribute is there and not empty
Truthy(attr) == Len(attr) > 0 /\ Len(attr[1]) > 0

Lowest(S) == CHOOSE i \in S : \A j \in S : i <= j

\* a dict built from (key, value) pairs in order: a later pair replaces the
\* value of an earlier pair with the same key
DictOf(pairs) ==
    [k \in {pairs[i][1] : i \in 1..Len(pairs)} |->
        pairs[CHOOSE i \in 1..Len(pairs) :
                 /\ pairs[i][1] = k
                 /\ \A j \in (i + 1)..Len(pairs) : pairs[j][1] # k][2]]

\* dict(zip(headers, cells)) (lines 141, 193)
Zip(headers, cells) ==
    LET n == IF Len(headers) < Len(cells) THEN Len(headers) ELSE Len(cells)
    IN  DictOf([j \in 1..n |-> <<headers[j], Str(cells[j])>>])

\* get_text(strip=True, separator=...) of an element that holds one string
GetText(s) == Strip(s)

\* Tag.text of an element: the strings in it, concatenated
RECURSIVE TagText(_)
TagText(contents) ==
    IF Len(contents) = 0 THEN <<>>
    ELSE Head(contents).text \o TagText(Tail(contents))

\* [c.text.strip() for c in tr.find_all(tag)], tag being "th" or "td"
CellTexts(tr, tag) ==
    LET cells == SelectSeq(tr, LAMBDA c : c.tag = tag)
    IN  [j \in 1..Len(cells) |-> Strip(cells[j].text)]

\* mutant: a row is kept whether or not it has cells
KeepRowAlways(cells) == TRUE

\* `if cells` (lines 140, 192)
KeepRow(cells) == Len(cells) > 0

\* lines 136-142 and 188-194: the rows of a table; the headers are the th
\* cells of every row of the table (table.find_all("th"))
TableRows(table) ==
    LET RECURSIVE ThTexts(_)
        ThTexts(rows) ==
            IF Len(rows) = 0 THEN <<>>
            ELSE CellTexts(Head(rows), "th") \o ThTexts(Tail(rows))
        headers == ThTexts(table.rows)
        trs == IF Len(table.rows) = 0 THEN <<>> ELSE Tail(table.rows)
        cells == [i \in 1..Len(trs) |-> CellTexts(trs[i], "td")]
        kept == SelectSeq(cells, KeepRow)
    IN  [i \in 1..Len(kept) |-> Dict(Zip(headers, kept[i]))]

\* FinDataExtractor.extract_company_name (lines 69-72)
extract_company_name(soup, d) ==
    LET h1 == {i \in 1..Len(soup.body) : soup.body[i].tag = "h1"}
    IN  IF h1 = {} THEN d
        ELSE SetItem(d, Lit.company_name,
                     Str(Strip(soup.body[Lowest(h1)].text)))

\* FinDataExtractor.extract_company_info (lines 74-120)
extract_company_info(soup, d) ==
    IF Len(soup.company_info) = 0 THEN SetItem(d, Lit.company_info, Dict(<<>>))
    ELSE
      LET ci == soup.company_info[1]
          info1 == IF Len(ci.about) = 0 THEN <<>>
                   ELSE SetItem(<<>>, Lit.about, Str(GetText(ci.about[1])))
          info2 == IF Len(ci.commentary) = 0 THEN info1
                   ELSE SetItem(info1, Lit.key_points,
                                Str(GetText(ci.commentary[1])))
          anchors == IF Len(ci.links) = 0 THEN <<>>
                     ELSE SelectSeq(ci.links[1],
                              LAMBDA a : Len(GetText(a.label)) > 0
                                            /\ Truthy(a.href))
          external_links ==
              DictOf([i \in 1..Len(anchors) |->
                         <<GetText(anchors[i].label), Str(anchors[i].href[1])>>])
          info3 == IF DOMAIN external_links = {} THEN info2
                   ELSE SetItem(info2, Lit.external_links, Dict(external_links))
          lis == SelectSeq(ci.ratios,
                           LAMBDA li : Len(li.name) > 0 /\ Len(li.value) > 0)
          ratios ==
              DictOf([i \in 1..Len(lis) |->
                         <<Strip(lis[i].name[1]), Str(GetText(lis[i].value[1]))>>])
          info4 == IF DOMAIN ratios = {} THEN info3
                   ELSE SetItem(info3, Lit.top_ratios, Dict(ratios))
      IN  SetItem(d, Lit.company_info, Dict(info4))

\* FinDataExtractor.extract_text_list (lines 65-67)
extract_text_list(elements) ==
    List([i \in 1..Len(elements) |-> Str(GetText(elements[i]))])

\* FinDataExtractor.extract_pros_cons (lines 123-127)
extract_pros_cons(soup, d) ==
    SetItem(SetItem(d, Lit.pros, extract_text_list(soup.pros)),
            Lit.cons, extract_text_list(soup.cons))

\* table.find_previous(["h2", "h3"]) (line 133): the index of the nearest
\* heading before node i of the body, or 0
find_previous(body, i) ==
    LET hs == {j \in 1..(i - 1) : body[j].tag \in {"h2", "h3"}}
    IN  IF hs = {} THEN 0 ELSE CHOOSE j \in hs : \A k \in hs : k <= j

\* FinDataExtractor.extract_tables (lines 129-143): the loop over the
\* tables of class data-table, from node i of the body on
extract_tables(soup, d) ==
    LET body == soup.body
        RECURSIVE From(_, _)
        From(i, data_i) ==
            IF i > Len(body) THEN data_i
            ELSE IF body[i].tag = "table" /\ body[i].class = "data-table"
                        /\ find_previous(body, i) # 0
                THEN From(i + 1,
                         SetItem(data_i,
                                 Strip(body[find_previous(body, i)].text),
                                 List(TableRows(body[i]))))
                ELSE From(i + 1, data_i)
    IN  From(1, d)

\* re.compile(pat, re.I) searched in s
ContainsCI(s, pat) ==
    LET Lower(c) == IF c \in 65..90 THEN c + 32 ELSE c
    IN  \E i \in 1..(Len(s) - Len(pat) + 1) :
            \A j \in 1..Len(pat) : Lower(s[i + j - 1]) = Lower(pat[j])

\* FinDataExtractor.extract_shareholding_pattern (lines 183-195)
extract_shareholding_pattern(soup, d) ==
    LET body == soup.body
        hs == {i \in 1..Len(body) :
                  body[i].tag = "h2" /\ ContainsCI(body[i].text, Lit.shareholding)}
        ts == {i \in 1..Len(body) :
                  hs # {} /\ i > Lowest(hs) /\ body[i].tag = "table"}
    IN  IF hs = {} \/ ts = {} THEN d
        ELSE SetItem(d, Lit.shareholding, List(TableRows(body[Lowest(ts)])))

\* the a tags of the li elements that have one (lines 215-217, 226-228)
Anchors(items) ==
    LET with_a == SelectSeq(items, LAMBDA li : Len(li.a) > 0)
    IN  [i \in 1..Len(with_a) |-> with_a[i].a[1]]

\* lines 211-221: the links of the first ul after the heading "Documents"
Announcements(body) ==
    LET hs == {i \in 1..Len(body) :
                  body[i].tag = "h2" /\ body[i].text = Lit.doc_heading}
        uls == {i \in 1..Len(body) :
                  hs # {} /\ i > Lowest(hs) /\ body[i].tag = "ul"}
        anchors == IF hs = {} \/ uls = {} THEN <<>>
                   ELSE Anchors(body[Lowest(uls)].items)
    IN  [i \in 1..Len(anchors) |->
            Dict(DictOf(<<<<Lit.title, Str(Strip(TagText(anchors[i].contents)))>>,
                          <<Lit.url, Optional(anchors[i].href)>>>>))]

\* a_tag.contents[0].strip() (line 229): an IndexError when the a tag is
\* empty, a TypeError when its first child is a tag (a Tag has no strip:
\* the attribute is looked up as a child tag and is None)
FirstTextNode(a) ==
    IF Len(a.contents) = 0 THEN [raised |-> "IndexError", value |-> <<>>]
    ELSE IF a.contents[1].kind = "tag"
        THEN [raised |-> "TypeError", value |-> <<>>]
    ELSE [raised |-> "none", value |-> Strip(a.contents[1].text)]

\* lines 224-231: the annual reports, or the exception of the first link
\* whose title cannot be taken
AnnualReports(soup) ==
    LET anchors == IF Len(soup.annual_reports) = 0 THEN <<>>
                   ELSE Anchors(soup.annual_reports[1])
        bad == {i \in 1..Len(anchors) : FirstTextNode(anchors[i]).raised # "none"}
    IN  IF bad # {}
            THEN [raised |-> FirstTextNode(anchors[Lowest(bad)]).raised,
                  value |-> <<>>]
            ELSE [raised |-> "none",
                  value |-> [i \in 1..Len(anchors) |->
                      Dict(DictOf(<<<<Lit.title,
                                      Str(FirstTextNode(anchors[i]).value)>>,
                                    <<Lit.url, Optional(anchors[i].href)>>>>))]]

\* lines 238-251: the entries of one concall li, from its a.concall-link
\* and then its button.concall-link elements
ConcallEntries(li) ==
    LET links == SelectSeq(li.links,
                     LAMBDA l : Len(GetText(l.label)) > 0 /\ Truthy(l.href))
        buttons == SelectSeq(li.buttons,
                     LAMBDA b : Len(GetText(b.label)) > 0 /\ Truthy(b.data_url))
    IN  [i \in 1..Len(links) |->
            Dict(DictOf(<<<<Lit.type, Str(GetText(links[i].label))>>,
                          <<Lit.url, Str(links[i].href[1])>>>>))]
        \o [i \in 1..Len(buttons) |->
            Dict(DictOf(<<<<Lit.type, Str(GetText(buttons[i].label))>>,
                          <<Lit.url,
                            Str(Lit.origin \o buttons[i].data_url[1])>>>>))]

\* lines 234-254: one dict per concall li that has entries
Concalls(soup) ==
    LET lis == SelectSeq(soup.concalls, LAMBDA li : Len(ConcallEntries(li)) > 0)
    IN  [i \in 1..Len(lis) |->
            Dict(DictOf(<<<<Lit.date,
                            Str(IF Len(lis[i].date) > 0
                                    THEN Strip(lis[i].date[1])
                                    ELSE Lit.unknown_date)>>,
                          <<Lit.links, List(ConcallEntries(lis[i]))>>>>))]

\* FinDataExtractor.extract_documents_links (lines 197-256): the exception
\* that leaves it, or self.data with the key "documents" set
extract_documents_links(soup, d) ==
    LET annual == AnnualReports(soup)
    IN  IF annual.raised # "none" THEN [raised |-> annual.raised, data |-> d]
        ELSE [raised |-> "none",
              data |-> SetItem(d, Lit.documents,
                  Dict(DictOf(<<<<Lit.announcements,
                                  List(Announcements(soup.body))>>,
                                <<Lit.annual_reports, List(annual.value)>>,
                                <<Lit.concalls, List(Concalls(soup))>>>>)))]

(***************************************************************************)
(* FinDataExtractor.fetch_html (lines 34-57).  A fetch is described by     *)
(* use_browser, PLAYWRIGHT_AVAILABLE, what the rendering engine does (it   *)
(* works, or raises at one of the calls of lines 39-45) and what           *)
(* requests does (it answers, fails to connect, or answers with an error   *)
(* status that raise_for_status raises).  self.html is "rendered" or       *)
(* "static" by the way it was fetched.                                     *)
(***************************************************************************)
FetchConfigs ==
    [use_browser : BOOLEAN, available : BOOLEAN,
     render : {"ok", "sync_playwright", "launch", "new_context", "new_page",
               "goto", "content", "close"},
     request : {"ok", "ConnectionError", "HTTPError"}]

\* FinDataExtractor(url=url, use_browser=False) (src/cdbvecstore.py line
\* 170) on a site that answers
StaticFetch ==
    [use_browser |-> FALSE, available |-> TRUE, render |-> "ok",
     request |-> "ok"]

\* FinDataExtractor._fetch_html_requests (lines 52-57): self.html is set
\* unless requests.get or raise_for_status raises
_fetch_html_requests(f, html_before) ==
    IF f.request = "ok" THEN [html |-> "static", error |-> "none"]
    ELSE [html |-> html_before, error |-> f.request]

\* mutant: the exception of the rendering engine leaves fetch_html
PlaywrightFailedPropagates(f) ==
    [html |-> IF f.render = "close" THEN "rendered" ELSE "none",
     error |-> "PlaywrightError", log |-> <<>>]

\* except Exception (lines 46-48): the message is printed and the page is
\* fetched with requests; browser.close() raises after self.html was set
PlaywrightFailed(f) ==
    LET r == _fetch_html_requests(f, IF f.render = "close" THEN "rendered"
                                                           ELSE "none")
    IN  [html |-> r.html, error |-> r.error, log |-> <<"Playwright failed">>]

\* FinDataExtractor.fetch_html (lines 34-50), self.url being set
fetch_html(f) ==
    IF f.use_browser /\ f.available
        THEN IF f.render = "ok"
                 THEN [html |-> "rendered", error |-> "none", log |-> <<>>]
                 ELSE PlaywrightFailed(f)
        ELSE LET r == _fetch_html_requests(f, "none")
             IN  [html |-> r.html, error |-> r.error, log |-> <<>>]

(***************************************************************************)
(* The pages of the model.                                                 *)
(***************************************************************************)
\* the nodes a body is made of: three headings, two tables of class
\* data-table (the second with a row of one cell and a row without cells),
\* a table of no class, and a list of two items, one without a link
Node ==
  LET Th(t) == [tag |-> "th", text |-> t]
      Td(t) == [tag |-> "td", text |-> t]
      TextNode(t) == [kind |-> "text", text |-> t]
  IN
    [h1 |-> [tag |-> "h1", text |-> Txt.affle],
     quarterly |-> [tag |-> "h2", text |-> Txt.quarterly],
     holding |-> [tag |-> "h2", text |-> Txt.holding],
     documents |-> [tag |-> "h2", text |-> Lit.doc_heading],
     sales |-> [tag |-> "table", class |-> "data-table",
                rows |-> <<<<Th(Txt.year), Th(Txt.sales)>>,
                           <<Td(Txt.y2023), Td(Txt.v100)>>>>],
     partial |-> [tag |-> "table", class |-> "data-table",
                  rows |-> <<<<Th(Txt.year), Th(Txt.sales)>>,
                             <<Td(Txt.y2024)>>,
                             <<>>,
                             <<Td(Txt.y2023), Td(Txt.v100)>>>>],
     promoters |-> [tag |-> "table", class |-> "",
                    rows |-> <<<<Th(Txt.year), Th(Txt.promoters)>>,
                               <<Td(Txt.y2024), Td(Txt.pct)>>>>],
     list |-> [tag |-> "ul",
               items |-> <<[a |-> <<[contents |-> <<TextNode(Txt.report)>>,
                                     href |-> <<Txt.href>>]>>],
                           [a |-> <<>>]>>]]

\* a page with this body and none of the other nodes
Page(body) ==
    [body |-> body, company_info |-> <<>>, pros |-> <<>>, cons |-> <<>>,
     annual_reports |-> <<>>, concalls |-> <<>>]

\* the nodes outside the body: .company-info blocks, .pros li and .cons li
\* texts, ul.list-links lists of annual reports, concall li elements
Section ==
  LET TextNode(t) == [kind |-> "text", text |-> t]
  IN
    [company_info |->
         {[about |-> <<>>, commentary |-> <<>>, links |-> <<>>, ratios |-> <<>>],
          [about |-> <<Txt.about>>, commentary |-> <<Txt.growth>>,
           links |-> <<<<[label |-> Txt.website, href |-> <<Txt.site>>],
                         [label |-> Txt.website, href |-> <<>>],
                         [label |-> Txt.blank, href |-> <<Txt.site>>]>>>>,
           ratios |-> <<[name |-> <<Txt.roe>>, value |-> <<Txt.pct>>],
                        [name |-> <<>>, value |-> <<Txt.pct>>]>>]},
     pros |-> {<<Txt.growth>>, <<Txt.growth, Txt.blank>>},
     annual_reports |->
         {<<>>,
          <<[a |-> <<>>]>>,
          <<[a |-> <<[contents |-> <<TextNode(Txt.report),
                                     [kind |-> "tag", text |-> Txt.badge]>>,
                      href |-> <<Txt.href>>]>>]>>,
          <<[a |-> <<[contents |-> <<TextNode(Txt.report)>>, href |-> <<>>]>>],
            [a |-> <<[contents |-> <<>>, href |-> <<Txt.href>>]>>]>>,
          <<[a |-> <<[contents |-> <<[kind |-> "tag", text |-> Txt.badge],
                                     TextNode(Txt.report)>>,
                      href |-> <<Txt.href>>]>>]>>},
     concalls |->
         {<<[date |-> <<Txt.may>>,
             links |-> <<[label |-> Txt.transcript, href |-> <<Txt.href>>]>>,
             buttons |-> <<[label |-> Txt.notes,
                            data_url |-> <<Txt.data_url>>]>>]>>,
          <<[date |-> <<>>,
             links |-> <<[label |-> Txt.transcript, href |-> <<>>]>>,
             buttons |-> <<[label |-> Txt.notes, data_url |-> <<>>]>>]>>,
          <<[date |-> <<>>, links |-> <<>>,
             buttons |-> <<[label |-> Txt.notes,
                            data_url |-> <<Txt.data_url>>]>>],
            [date |-> <<Txt.may>>, links |-> <<>>, buttons |-> <<>>]>>}]

\* the pages with a body only, and the pages without a body that have the
\* nodes of one section
Pages ==
    {Page(b) : b \in Seqs({Node[n] : n \in DOMAIN Node}, MaxNodes)}
    \cup {[Page(<<>>) EXCEPT !.company_info = <<x>>] : x \in Section.company_info}
    \cup {[Page(<<>>) EXCEPT !.pros = x, !.cons = x] : x \in Section.pros}
    \cup {[Page(<<>>) EXCEPT !.annual_reports = <<x>>] :
             x \in Section.annual_reports}
    \cup {[Page(<<>>) EXCEPT !.concalls = x] : x \in Section.concalls}

\* a page of a company with a heading and a table
PlainPage == Page(<<Node.h1, Node.quarterly, Node.sales>>)

(***************************************************************************)
(* extract_all (lines 258-268) on a new FinDataExtractor(url=...): pc is   *)
(* the call that is next.                                                  *)
(***************************************************************************)
InitExtract ==
    /\ \/ page \in Pages /\ fetch = StaticFetch
       \/ page = PlainPage /\ fetch \in FetchConfigs
    /\ html = "none"
    /\ data = <<>>
    /\ error = "none"
    /\ log = <<>>
    /\ pc = "parse_html"
    /\ IdleRun
    /\ IdleClean
    /\ IdleQuery

\* a call of extract_all that returned passes on to the next
Returned(d, next) ==
    /\ data' = d
    /\ pc' = next
    /\ UNCHANGED <<page, fetch, html, error, log>>
    /\ UNCHANGED <<runVars, cleanVars, queryVars>>

\* FinDataExtractor.parse_html (lines 59-63): self.html is not set, so the
\* page is fetched; an exception of fetch_html leaves extract_all
ParseHtml ==
    /\ pc = "parse_html"
    /\ LET r == fetch_html(fetch)
       IN  /\ html' = r.html
           /\ error' = r.error
           /\ log' = r.log
           /\ pc' = IF r.error = "none" THEN "extract_company_name" ELSE "raised"
    /\ UNCHANGED <<page, fetch, data>>
    /\ UNCHANGED <<runVars, cleanVars, queryVars>>

ExtractCompanyName ==
    /\ pc = "extract_company_name"
    /\ Returned(extract_company_name(page, data), "extract_company_info")

ExtractCompanyInfo ==
    /\ pc = "extract_company_info"
    /\ Returned(extract_company_info(page, data), "extract_pros_cons")

ExtractProsCons ==
    /\ pc = "extract_pros_cons"
    /\ Returned(extract_pros_cons(page, data), "extract_tables")

ExtractTables ==
    /\ pc = "extract_tables"
    /\ Returned(extract_tables(page, data), "extract_shareholding_pattern")

ExtractShareholdingPattern ==
    /\ pc = "extract_shareholding_pattern"
    /\ Returned(extract_shareholding_pattern(page, data),
                "extract_documents_links")

\* extract_documents_links, and return self.data (lines 267-268); an
\* exception of extract_documents_links leaves extract_all
ExtractDocumentsLinks ==
    /\ pc = "extract_documents_links"
    /\ LET r == extract_documents_links(page, data)
       IN  /\ data' = r.data
           /\ error' = r.raised
           /\ pc' = IF r.raised = "none" THEN "returned" ELSE "raised"
    /\ UNCHANGED <<page, fetch, html, log>>
    /\ UNCHANGED <<runVars, cleanVars, queryVars>>

NextExtract ==
    \/ ParseHtml
    \/ ExtractCompanyName
    \/ ExtractCompanyInfo
    \/ ExtractProsCons
    \/ ExtractTables
    \/ ExtractShareholdingPattern
    \/ ExtractDocumentsLinks

SpecExtract == InitExtract /\ [][NextExtract]_vars

TypeOK ==
    /\ result \in {"running", "None", "vectorstore", "raised"}
    /\ exception \in {"none", "load", "decode", "index"}
    /\ stage \in {"idle", "input", "once", "twice"}
    /\ response.kind \in {"idle", "pending", "str", "raised"}
    /\ html \in {"none", "rendered", "static"}
    /\ error \in {"none", "ConnectionError", "HTTPError", "IndexError",
                  "TypeError"}
    /\ pc \in {"idle", "parse_html", "extract_company_name",
               "extract_company_info", "extract_pros_cons", "extract_tables",
               "extract_shareholding_pattern", "extract_documents_links",
               "returned", "raised"}
    /\ Len(build_calls) <= 1

(***************************************************************************)
(* Properties.                                                             *)
(***************************************************************************)
SourceTypeOf(chunk) == chunk.metadata["source_type"].value

\* a text of at least 20 characters with an alphanumeric character
AboveThreshold(t) == Len(t) >= 20 /\ \E i \in 1..Len(t) : IsAlnum(t[i])

Trimmed(i) == Strip(all_chunks[i].page_content)

ChunksWithText(t) == {i \in 1..Len(all_chunks) : Trimmed(i) = t}

\* C1: no two chunks of all_chunks have the same whitespace-trimmed
\* content, whatever the calls of _split_and_dedup_docs so far; two chunks
\* that differ only in leading or trailing whitespace are never both there.
NoDuplicateTrimmedContent ==
    \A i, j \in 1..Len(all_chunks) : i # j => Trimmed(i) # Trimmed(j)

\* C1 witness: an untrimmed chunk is in a corpus of two or more chunks, and
\* its trimmed text came again from another source and was dropped.
WhitespaceVariantDropped ==
    /\ Len(all_chunks) >= 2
    /\ \E i \in 1..Len(all_chunks) :
          /\ all_chunks[i].page_content # Trimmed(i)
          /\ Trimmed(i) \in resubmitted

\* C2: a content submitted under two source types has exactly one chunk in
\* the corpus, tagged with the source type that submitted it first; a chunk
\* once in the corpus keeps its position, content and tag (and all of its
\* metadata while sources are processed), and a call that submits only
\* texts submitted before changes neither all_chunks nor seen_hashes.
FirstSubmissionWins ==
    /\ [](\A t \in resubmitted : AboveThreshold(t) =>
            /\ Cardinality(ChunksWithText(t)) = 1
            /\ \A i \in ChunksWithText(t) :
                  [text |-> t, source_type |-> SourceTypeOf(all_chunks[i])]
                      \in first_source)
    /\ [][/\ Len(all_chunks') >= Len(all_chunks)
          /\ \A i \in 1..Len(all_chunks) :
                /\ all_chunks'[i].page_content = all_chunks[i].page_content
                /\ SourceTypeOf(all_chunks'[i]) = SourceTypeOf(all_chunks[i])
                /\ processed' # processed => all_chunks'[i] = all_chunks[i]
          /\ (processed' # processed /\ first_source' = first_source) =>
                (all_chunks' = all_chunks /\ seen_hashes' = seen_hashes)]_vars

\* C2 witness: a text above the threshold was submitted under two source
\* types and the run has ended with its one chunk in the corpus.
ResubmittedUnderOtherType ==
    /\ result = "vectorstore"
    /\ \E t \in resubmitted :
          /\ AboveThreshold(t)
          /\ \E i \in ChunksWithText(t) : SourceTypeOf(all_chunks[i]) # "screener"

\* C3: no chunk of all_chunks is shorter than 20 characters or without an
\* alphanumeric character, and the hash of a text below the threshold that
\* a splitter returned is not in seen_hashes.
NoSubThresholdChunk ==
    /\ \A i \in 1..Len(all_chunks) : AboveThreshold(all_chunks[i].page_content)
    /\ \A f \in first_source :
          ~AboveThreshold(f.text) => _get_content_hash(f.text) \notin seen_hashes

\* C3 witness: a short text and a long text without alphanumeric character
\* were both submitted, next to a chunk that was kept.
SubThresholdSubmitted ==
    /\ Len(all_chunks) >= 1
    /\ \E f \in first_source : Len(f.text) < 20 /\ Len(f.text) > 0
    /\ \E f \in first_source :
          Len(f.text) >= 20 /\ \A i \in 1..Len(f.text) : ~IsAlnum(f.text[i])

\* C4: every chunk of the corpus has a source_type tag, one of web, pdf,
\* excel, screener, equal to the kind of the source that was being processed
\* when the chunk was added; every chunk handed to Chroma.from_documents
\* still has the tag.
SourceTypeTagged ==
    /\ \A i \in 1..Len(all_chunks) :
          /\ "source_type" \in DOMAIN all_chunks[i].metadata
          /\ SourceTypeOf(all_chunks[i]) \in SourceTypes
          /\ [text |-> Trimmed(i), source_type |-> SourceTypeOf(all_chunks[i])]
                 \in first_source
    /\ \A c \in 1..Len(build_calls) :
          /\ Len(build_calls[c]) = Len(all_chunks)
          /\ \A i \in 1..Len(build_calls[c]) :
                /\ "source_type" \in DOMAIN build_calls[c][i].metadata
                /\ SourceTypeOf(build_calls[c][i]) = SourceTypeOf(all_chunks[i])

\* C4 witness: Chroma.from_documents received chunks of two kinds, one of
\* them a spreadsheet chunk that lost its list-valued metadata.
TaggedChunksIndexed ==
    /\ Len(build_calls) = 1
    /\ \E i, j \in 1..Len(build_calls[1]) :
          /\ SourceTypeOf(build_calls[1][i]) = "excel"
          /\ "languages" \notin DOMAIN build_calls[1][i].metadata
          /\ SourceTypeOf(build_calls[1][j]) \in {"web", "pdf", "screener"}

\* C5: when every source failed or yielded only chunks below the threshold,
\* a run that has ended returned None and Chroma.from_documents was not
\* called.
EmptyCorpusReturnsNone ==
    (result # "running" /\ \A f \in first_source : ~AboveThreshold(f.text)) =>
        (result = "None" /\ Len(build_calls) = 0)

ScreenerLoopReached ==
    \A k \in {"web", "pdf", "excel"} : processed[k] = config[k]

\* C6: an exception in the iteration of one Screener URL is caught: the
\* iteration leaves all_chunks and seen_hashes as they were, the run goes on
\* with the next URL, and a run that reached the Screener loop ends only
\* after every Screener URL has been processed.
ScreenerFailureSkipsSource ==
    /\ [][(/\ Len(warnings') > Len(warnings)
           /\ warnings'[Len(warnings')].event = "screener_failed") =>
              /\ all_chunks' = all_chunks
              /\ seen_hashes' = seen_hashes
              /\ result' = "running"
              /\ processed' =
                     [processed EXCEPT !["screener"] = @ + 1]]_vars
    /\ []((ScreenerLoopReached /\ result # "running") =>
              processed["screener"] = config["screener"])

\* C6 witness: the first Screener URL failed, a later one added a chunk, a
\* chunk of an earlier source is still in the corpus, and the run returned
\* the vector store.
ScreenerFailureSurvived ==
    /\ result = "vectorstore"
    /\ Len(warnings) >= 1
    /\ warnings[1] = [event |-> "screener_failed", url |-> 1]
    /\ processed["screener"] >= 2
    /\ \E i, j \in 1..Len(all_chunks) :
          /\ SourceTypeOf(all_chunks[i]) \in {"web", "pdf", "excel"}
          /\ SourceTypeOf(all_chunks[j]) = "screener"

\* C7: a load failure of a web page, a PDF file or a spreadsheet file never
\* aborts the run.
LoadFailureNeverAborts == exception = "load" => result # "raised"

\* C8: _clean_content is idempotent: cleaning what it returned returns the
\* same string.
CleanIdempotent ==
    stage = "twice" => (~recleaned.raised /\ recleaned.value = cleaned.value)

\* C9: _clean_content never raises: when the decoding of step 2 fails it
\* goes on from the text before the decoding and returns a string.
CleanNeverRaises ==
    stage = "once" =>
        /\ ~cleaned.raised
        /\ DecodeRaises(UnicodeEscapeDecode(Utf8Encode(UnescapeNewlines(text))))
              => cleaned.value = CleanDecoded(UnescapeNewlines(text))

Newlines(k) == [i \in 1..k |-> LF]

\* C10: _clean_content turns a run of newlines between two words into one
\* space and a non-breaking space into one space, and what it returns has no
\* newline.
CleanCollapses ==
    stage = "once" =>
        /\ \A x, y \in {97, 98} :
              /\ \A k \in 1..3 :
                    text = <<x>> \o Newlines(k) \o <<y>> =>
                        cleaned = [raised |-> FALSE, value |-> <<x, SPACE, y>>]
              /\ text = <<x, NBSP, y>> =>
                    cleaned = [raised |-> FALSE, value |-> <<x, SPACE, y>>]
        /\ \A i \in 1..Len(cleaned.value) : cleaned.value[i] # LF

\* the args dict has no query, or an empty one
QueryMissing ==
    \/ "query" \notin DOMAIN args
    \/ args["query"].type = "NoneType"
    \/ args["query"] = Str(<<>>)

ResponseJoinsHits ==
    (response.kind = "str" /\ Len(searches) > 0) =>
        LET hits == similarity_search(collection, TopK)
        IN  response.value \in {Join(hits, <<LF>>), Join(hits, <<LF, LF>>)}

\* the rendering engine was asked for, is installed, and raised
RenderingFailed ==
    fetch.use_browser /\ fetch.available /\ fetch.render # "ok"

\* C13: when browser rendering is requested and available and the rendering
\* engine raises at any step, fetch_html does not propagate that error; it
\* fetches the page with requests and the extraction goes on with the
\* statically fetched HTML; only an exception of the static fetch (no
\* connection, or an HTTP error status) leaves extract_all.
RenderFailureFallsBack ==
    (pc \notin {"idle", "parse_html"} /\ RenderingFailed) =>
        /\ error \in {"none", "ConnectionError", "HTTPError"}
        /\ fetch.request = "ok" => (html = "static" /\ pc # "raised")
        /\ fetch.request # "ok" => (pc = "raised" /\ error = fetch.request)

\* C13 witness: page.goto raised, the page was fetched with requests, and
\* extract_all returned a record with the company name in it.
ExtractedAfterRenderFailure ==
    /\ pc = "returned"
    /\ RenderingFailed
    /\ fetch.render = "goto"
    /\ html = "static"
    /\ log = <<"Playwright failed">>
    /\ Lit.company_name \in DOMAIN data

\* C14: extract_all never fails because of missing DOM nodes: whatever
\* nodes the page lacks, every sub-extraction returns and extract_all
\* returns a record; the only exception that can leave it is the fetch's.
ExtractAllNeverFails ==
    pc = "raised" => error \in {"ConnectionError", "HTTPError"}

\* extract_tables has returned
TablesExtracted ==
    pc \in {"extract_shareholding_pattern", "extract_documents_links",
            "returned"}

\* the keys of self.data that are not the name of a table
SectionKeys ==
    {Lit.company_name, Lit.company_info, Lit.pros, Lit.cons, Lit.documents}

\* the texts of the cells of a row, trimmed
RowTexts(tr) == [j \in 1..Len(tr) |-> Strip(tr[j].text)]

\* out holds, for each row after the first that has cells, in order, the
\* mapping of the first header cells to the cells of the row
RowsZipped(table, out) ==
    LET hdr == RowTexts(table.rows[1])
        rows == SelectSeq(Tail(table.rows), LAMBDA tr : Len(tr) > 0)
    IN  /\ Len(out) = Len(rows)
        /\ \A r \in 1..Len(rows) :
              LET n == IF Len(hdr) < Len(rows[r]) THEN Len(hdr)
                       ELSE Len(rows[r])
              IN  /\ out[r].type = "dict"
                  /\ DOMAIN out[r].value = {hdr[j] : j \in 1..n}
                  /\ \A j \in 1..n :
                        out[r].value[hdr[j]] = Str(Strip(rows[r][j].text))

\* C15: the rows stored for a table are, for each data row of the table in
\* order, the mapping that zips the header cells with the cells of the row
\* by position: header [Year, Sales] and row [2023, 100] give
\* {Year: 2023, Sales: 100}; a row with fewer cells than headers gives the
\* mapping of its first cells; a row without cells gives no mapping.
RowsZipHeadersAndCells ==
    TablesExtracted =>
        /\ \A k \in DOMAIN data \ SectionKeys :
              /\ data[k].type = "list"
              /\ \E i \in 1..Len(page.body) :
                    /\ page.body[i].tag = "table"
                    /\ RowsZipped(page.body[i], data[k].value)
        /\ page.body = <<Node.quarterly, Node.sales>> =>
              data[Strip(Txt.quarterly)].value =
                  <<Dict(<<89, 101, 97, 114>> :> Str(<<50, 48, 50, 51>>)
                         @@ <<83, 97, 108, 101, 115>> :> Str(<<49, 48, 48>>))>>

\* C15 witness: extract_all returned the rows of a table that has a row of
\* one cell and a row without cells: two mappings, the first of one key.
PartialRowZipped ==
    /\ pc = "returned"
    /\ \E k \in DOMAIN data \ SectionKeys :
          /\ Len(data[k].value) = 2
          /\ DOMAIN data[k].value[1].value = {Txt.year}
          /\ data[k].value[1].value[Txt.year] = Str(Txt.y2024)
          /\ Cardinality(DOMAIN data[k].value[2].value) = 2

\* C16: after extract_tables every table of class data-table that has a
\* heading before it is in the record under the trimmed text of its nearest
\* preceding heading, with its rows, also when several such tables follow
\* the same heading.
EveryDataTableCaptured ==
    TablesExtracted =>
        \A i \in 1..Len(page.body) :
            (/\ page.body[i].tag = "table"
             /\ page.body[i].class = "data-table"
             /\ find_previous(page.body, i) # 0) =>
                LET k == Strip(page.body[find_previous(page.body, i)].text)
                IN  /\ k \in DOMAIN data
                    /\ data[k] = List(TableRows(page.body[i]))

\* C17: for every source kind the text of a document is normalized before
\* the document is chunked: every document handed to a splitter has a text
\* that _clean_content returned.
NormalizedBeforeChunked == unnormalized = {}

\* C18: Chroma.from_documents is called at most once, and only when every
\* configured source has been processed; the call receives the chunks of
\* the corpus, each once, in insertion order; a run that reached the end
\* of the source loops with chunks in the corpus has made the call, and a
\* run that returned None has not.
IndexBuiltOnceFromCorpus ==
    /\ [](/\ Len(build_calls) <= 1
          /\ Len(build_calls) = 1 =>
                /\ \A k \in SourceTypes : processed[k] = config[k]
                /\ Len(all_chunks) > 0
          /\ result \in {"None", "vectorstore"} =>
                Len(build_calls) = (IF Len(all_chunks) > 0 THEN 1 ELSE 0)
          /\ (result = "raised" /\ exception = "index") =>
                Len(build_calls) = 1)
    /\ [][build_calls' # build_calls =>
            /\ build_calls = <<>>
            /\ \A k \in SourceTypes : processed[k] = config[k]
            /\ Len(build_calls'[1]) = Len(all_chunks)
            /\ \A i \in 1..Len(all_chunks) :
                  /\ build_calls'[1][i].page_content = all_chunks[i].page_content
                  /\ SourceTypeOf(build_calls'[1][i]) = SourceTypeOf(all_chunks[i])]_vars

\* C18 witness: a run of three sources has returned the vector store, and
\* the one call of Chroma.from_documents received three chunks, the first
\* and the last of different source types.
CorpusIndexedInOrder ==
    /\ result = "vectorstore"
    /\ config["screener"] >= 1
    /\ Len(build_calls) = 1
    /\ Len(build_calls[1]) = 3
    /\ SourceTypeOf(build_calls[1][1]) # SourceTypeOf(build_calls[1][3])
    /\ SourceTypeOf(build_calls[1][3]) = "screener"

====
